---- MODULE Spec2Model ----
(***************************************************************************)
(* Model of skadoo/flag.py: the Flag record, parse_flag and create_flag,   *)
(* over the process's argument vector.                                     *)
(*                                                                         *)
(* Python strings are TLA+ strings (TLC evaluates Len, \o, SubSeq and Tail *)
(* on them); Python lists are sequences, so the 0-based parts[index + 1]   *)
(* of the code is parts[i + 1] for the 1-based position i here.            *)
(* A call either returns a value or raises; an outcome is the record       *)
(* [exc |-> "" or the exception's name, val |-> the returned value].       *)
(***************************************************************************)
EXTENDS Naturals, Sequences, FiniteSets

VARIABLES argv, op, args, outcome, ret

vars == <<argv, op, args, outcome, ret>>

----------------------------------------------------------------------------
(* Bounds and input sets *)

MaxTokens == 3

Tokens == {"--dry-run", "-dr", "--output", "-o", "x"}

Names == {"dry run", "output", "Dry Run", "o o"}

LongOverrides == {"", "--dry-run"}

ShortOverrides == {"", "-o"}

Values == {"", "v"}

Descriptions == {"", "help text"}

RECURSIVE SeqsUpTo(_, _)
SeqsUpTo(S, n) ==
    IF n = 0 THEN {<<>>}
    ELSE LET shorter == SeqsUpTo(S, n - 1)
         IN  shorter \cup {Append(s, t) : s \in shorter, t \in S}

----------------------------------------------------------------------------
(* Outcomes of a call *)

Return(v) == [exc |-> "", val |-> v]

Raise(e) == [exc |-> e, val |-> ""]

----------------------------------------------------------------------------
(* skadoo.utils: the token source and the name splitter *)

UpperLetters == "ABCDEFGHIJKLMNOPQRSTUVWXYZ"

LowerLetters == "abcdefghijklmnopqrstuvwxyz"

Whitespace == {" ", "\t"}

RECURSIVE lower_char(_, _, _)
lower_char(c, ups, lows) ==
    IF ups = "" THEN c
    ELSE IF SubSeq(ups, 1, 1) = c THEN SubSeq(lows, 1, 1)
    ELSE lower_char(c, Tail(ups), Tail(lows))

RECURSIVE lower(_)
lower(s) ==
    IF s = "" THEN ""
    ELSE lower_char(SubSeq(s, 1, 1), UpperLetters, LowerLetters) \o lower(Tail(s))

RECURSIVE split_words(_, _, _)
split_words(s, cur, acc) ==
    IF s = "" THEN (IF cur = "" THEN acc ELSE Append(acc, cur))
    ELSE IF SubSeq(s, 1, 1) \in Whitespace
         THEN split_words(Tail(s), "", IF cur = "" THEN acc ELSE Append(acc, cur))
         ELSE split_words(Tail(s), cur \o SubSeq(s, 1, 1), acc)

get_name_parts(name) == split_words(lower(name), "", <<>>)

get_command_parts == Tail(argv)

Contains(parts, x) == \E i \in 1..Len(parts) : parts[i] = x

is_called(full, abbreviation) ==
    Contains(get_command_parts, full) \/ Contains(get_command_parts, abbreviation)

----------------------------------------------------------------------------
(* Python built-ins used by flag.py *)

\* list.index(x): the position of the first element equal to x
Index(parts, x) ==
    CHOOSE i \in 1..Len(parts) :
        parts[i] = x /\ \A j \in 1..(i - 1) : parts[j] # x

\* sep.join(items)
RECURSIVE Join(_, _)
Join(sep, items) ==
    IF Len(items) = 0 THEN ""
    ELSE IF Len(items) = 1 THEN items[1]
    ELSE items[1] \o sep \o Join(sep, Tail(items))

\* s[:1]
FirstChar(s) == IF s = "" THEN "" ELSE SubSeq(s, 1, 1)

----------------------------------------------------------------------------
(* skadoo/flag.py *)

Flag(name, flag, description, called, short, value, empty) ==
    [name |-> name, flag |-> flag, description |-> description,
     called |-> called, short |-> short, value |-> value, empty |-> empty]

\* mutant: the check never fires for an empty flag
validate_inverted(self) ==
    IF ~self.empty /\ self.value # "" THEN Raise("ValueError") ELSE Return("None")

\* Flag.validate
validate(self) ==
    IF self.empty /\ self.value # "" THEN Raise("ValueError") ELSE Return("None")

\* index = None
NoIndex == 0

\* mutant: elif, so that a long form in the list keeps its index
select_index_long_wins(flag, short, parts) ==
    IF Contains(parts, flag) THEN Index(parts, flag)
    ELSE IF Contains(parts, short) THEN Index(parts, short)
    ELSE NoIndex

\* the two index assignments of parse_flag, in the code's order
select_index(flag, short, parts) ==
    LET after_flag == IF Contains(parts, flag) THEN Index(parts, flag) ELSE NoIndex
    IN  IF Contains(parts, short) THEN Index(parts, short) ELSE after_flag

\* mutant: returns the matched token itself (parts[index])
parse_flag_off_by_one(flag, short, empty) ==
    LET parts == get_command_parts
    IN  IF ~Contains(parts, flag) /\ ~Contains(parts, short) THEN Return("False")
        ELSE IF empty THEN Return("True")
        ELSE Return(parts[select_index(flag, short, parts)])

\* mutant: a missing value is returned as the empty string
parse_flag_silent(flag, short, empty) ==
    LET parts == get_command_parts
    IN  IF ~Contains(parts, flag) /\ ~Contains(parts, short) THEN Return("False")
        ELSE IF empty THEN Return("True")
        ELSE LET index == select_index(flag, short, parts)
             IN  IF index + 1 \in 1..Len(parts)
                 THEN Return(parts[index + 1])
                 ELSE Return("")

\* mutant: the value is read before the empty test
parse_flag_lookahead(flag, short, empty) ==
    LET parts == get_command_parts
    IN  IF ~Contains(parts, flag) /\ ~Contains(parts, short) THEN Return("False")
        ELSE LET index == select_index(flag, short, parts)
             IN  IF index + 1 \notin 1..Len(parts) THEN Raise("IndexError")
                 ELSE IF empty THEN Return("True")
                 ELSE Return(parts[index + 1])

parse_flag(flag, short, empty) ==
    LET parts == get_command_parts
    IN  IF ~Contains(parts, flag) /\ ~Contains(parts, short) THEN Return("False")
        ELSE IF empty THEN Return("True")
        ELSE LET index == select_index(flag, short, parts)
             IN  IF index + 1 \in 1..Len(parts)
                 THEN Return(parts[index + 1])
                 ELSE Raise("IndexError")

\* flag = "--" + "-".join(flag_parts), when no long form is given
derive_flag(flag, flag_parts) ==
    IF flag = "" THEN "--" \o Join("-", flag_parts) ELSE flag

\* mutant: whole words instead of their first letters
derive_short_words(short, flag_parts) ==
    IF short = "" THEN "-" \o Join("", flag_parts) ELSE short

\* short = "-" + "".join([_[:1] for _ in flag_parts]), when no short form is given
derive_short(short, flag_parts) ==
    IF short = ""
    THEN "-" \o Join("", [i \in 1..Len(flag_parts) |-> FirstChar(flag_parts[i])])
    ELSE short

\* mutant: the record is validated with the caller's value, before extraction
create_flag_validate_first(name, flag, description, short, value, empty) ==
    LET flag_parts == get_name_parts(name)
        long == derive_flag(flag, flag_parts)
        abbr == derive_short(short, flag_parts)
        called == is_called(long, abbr)
        checked == validate(Flag(name, long, description, called, abbr, value, empty))
        parsed == IF called THEN parse_flag(long, abbr, empty) ELSE Return(value)
    IN  IF checked.exc # "" THEN checked
        ELSE IF parsed.exc # "" THEN parsed
        ELSE Return(Flag(name, long, description, called, abbr, parsed.val, empty))

create_flag(name, flag, description, short, value, empty) ==
    LET flag_parts == get_name_parts(name)
        long == derive_flag(flag, flag_parts)
        abbr == derive_short(short, flag_parts)
        called == is_called(long, abbr)
        parsed == IF called THEN parse_flag(long, abbr, empty) ELSE Return(value)
    IN  IF parsed.exc # "" THEN parsed
        ELSE LET result == Flag(name, long, description, called, abbr, parsed.val, empty)
                 checked == validate(result)
             IN  IF checked.exc # "" THEN checked ELSE Return(result)

----------------------------------------------------------------------------
(* The state machine: a process with its argument vector makes one call.   *)
(* op is "none" until the call is made; args, outcome and ret then hold   *)
(* the call's arguments and what it returned or raised.                   *)

NoArgs == [name |-> "", flag |-> "", description |-> "", short |-> "",
           value |-> "", empty |-> FALSE]

Init ==
    /\ argv \in {<<"prog">> \o t : t \in SeqsUpTo(Tokens, MaxTokens)}
    /\ op = "none"
    /\ args = NoArgs
    /\ outcome = "none"
    /\ ret = <<>>

Finish(r) ==
    /\ outcome' = IF r.exc = "" THEN "return" ELSE r.exc
    /\ ret' = IF r.exc = "" THEN <<r.val>> ELSE <<>>

CreateFlag ==
    \E name \in Names, flag \in LongOverrides, description \in Descriptions,
       short \in ShortOverrides, value \in Values, empty \in BOOLEAN :
        /\ op = "none"
        /\ op' = "create_flag"
        /\ args' = [name |-> name, flag |-> flag, description |-> description,
                    short |-> short, value |-> value, empty |-> empty]
        /\ Finish(create_flag(name, flag, description, short, value, empty))
        /\ UNCHANGED argv

ParseFlag ==
    \E flag \in {"--dry-run", "--output"}, short \in {"-dr", "-o"}, empty \in BOOLEAN :
        /\ op = "none"
        /\ op' = "parse_flag"
        /\ args' = [NoArgs EXCEPT !.flag = flag, !.short = short, !.empty = empty]
        /\ Finish(parse_flag(flag, short, empty))
        /\ UNCHANGED argv

Next == CreateFlag \/ ParseFlag

Spec == Init /\ [][Next]_vars

----------------------------------------------------------------------------
(* Vocabulary of the properties: the token list as the claims speak of it *)

TokenList == SubSeq(argv, 2, Len(argv))

NTokens == Len(argv) - 1

InList(x) == \E i \in 1..NTokens : TokenList[i] = x

FirstAt(x) == CHOOSE i \in 1..NTokens :
                  TokenList[i] = x /\ \A j \in 1..NTokens : TokenList[j] = x => i <= j

\* the forms each name of Names stands for
FormsOf(name) ==
    CASE name = "dry run" -> [long |-> "--dry-run", short |-> "-dr"]
      [] name = "Dry Run" -> [long |-> "--dry-run", short |-> "-dr"]
      [] name = "output"  -> [long |-> "--output",  short |-> "-o"]
      [] name = "o o"     -> [long |-> "--o-o",     short |-> "-oo"]

\* the long and short form the last call worked with
LongForm ==
    IF op = "parse_flag" \/ args.flag # "" THEN args.flag ELSE FormsOf(args.name).long

ShortForm ==
    IF op = "parse_flag" \/ args.short # "" THEN args.short ELSE FormsOf(args.name).short

Created == op = "create_flag"

Parsed == op = "parse_flag"

Returned == outcome = "return"

\* the value a returning call produced: parse_flag's result, or the record's field
Value == IF Parsed THEN ret[1] ELSE ret[1].value

----------------------------------------------------------------------------
(* C1 (as claimed): a present bare switch with the default value yields a  *)
(* record with called = TRUE and value = "True", whatever follows it.      *)
C1_SwitchPresentYieldsTrue ==
    (Created /\ args.empty /\ args.value = "" /\ InList(LongForm))
        => (Returned /\ ret[1].called /\ ret[1].value = "True"
            /\ ret[1].flag = LongForm /\ ret[1].short = ShortForm)

(* C2 (as claimed): when neither form is in the token list, the returned   *)
(* record has called = FALSE and value = "False".                          *)
C2_AbsentYieldsFalse ==
    (Created /\ Returned /\ ~InList(LongForm) /\ ~InList(ShortForm))
        => (ret[1].called = FALSE /\ ret[1].value = "False")

(* C3 (as claimed): with both forms of a value-taking flag in the list,    *)
(* the value is the token after the long form.                             *)
C3_LongFormWins ==
    ((Created \/ Parsed) /\ ~args.empty /\ InList(LongForm) /\ InList(ShortForm)
        /\ FirstAt(LongForm) < NTokens)
        => (Returned /\ Value = TokenList[FirstAt(LongForm) + 1])

(* C3 (amended): with both forms of a value-taking flag in the list, the   *)
(* short form's position is authoritative: parse_flag returns, and         *)
(* create_flag stores, the token after the first occurrence of the short   *)
(* form, and the call raises IndexError when that occurrence is the last   *)
(* token.                                                                  *)
C3_ShortFormWins ==
    ((Created \/ Parsed) /\ ~args.empty /\ InList(LongForm) /\ InList(ShortForm))
        => IF FirstAt(ShortForm) < NTokens
           THEN Returned /\ Value = TokenList[FirstAt(ShortForm) + 1]
           ELSE outcome = "IndexError"

C3_Witness ==
    /\ Created /\ ~args.empty /\ InList(LongForm) /\ InList(ShortForm)
    /\ FirstAt(LongForm) < NTokens
    /\ Returned
    /\ ret[1].value # TokenList[FirstAt(LongForm) + 1]
    /\ ret[1].value = TokenList[FirstAt(ShortForm) + 1]

(* C4 (as claimed): whenever the long form is immediately followed by a    *)
(* token x, create_flag for a value-taking flag returns value = x.         *)
C4_TokenAfterLongForm ==
    \A i \in 1..(NTokens - 1) :
        (Created /\ ~args.empty /\ TokenList[i] = LongForm)
            => (Returned /\ ret[1].value = TokenList[i + 1])

(* C4 (amended): when the short form is not in the list and the first      *)
(* occurrence of the long form is immediately followed by a token x,       *)
(* create_flag for a value-taking flag returns a called record with        *)
(* value = x.                                                              *)
C4_TokenAfterFirstLongForm ==
    (Created /\ ~args.empty /\ InList(LongForm) /\ ~InList(ShortForm)
        /\ FirstAt(LongForm) < NTokens)
        => (Returned /\ ret[1].called
            /\ ret[1].value = TokenList[FirstAt(LongForm) + 1])

C4_Witness ==
    /\ Created /\ ~args.empty /\ ~InList(ShortForm)
    /\ NTokens = 3 /\ TokenList[2] = LongForm /\ TokenList[3] = "x"
    /\ Returned /\ ret[1].value = "x"

(* C5 (as claimed): whenever the last token is the long form, create_flag  *)
(* for a value-taking flag raises IndexError.                              *)
C5_LastTokenRaises ==
    (Created /\ ~args.empty /\ NTokens >= 1 /\ TokenList[NTokens] = LongForm)
        => (outcome = "IndexError" /\ ret = <<>>)

(* C5 (amended): when the last token is the only occurrence of the long    *)
(* form and the short form is not in the list, create_flag for a           *)
(* value-taking flag raises IndexError and returns no record.              *)
C5_OnlyOccurrenceLastRaises ==
    (Created /\ ~args.empty /\ InList(LongForm) /\ FirstAt(LongForm) = NTokens
        /\ ~InList(ShortForm))
        => (outcome = "IndexError" /\ ret = <<>>)

C5_Witness ==
    /\ Created /\ ~args.empty /\ NTokens >= 2 /\ ~InList(ShortForm)
    /\ InList(LongForm) /\ FirstAt(LongForm) = NTokens
    /\ outcome = "IndexError"

(* C6: an empty flag created with a non-empty value, on a token list with  *)
(* neither form, fails with ValueError and no record is returned.          *)
C6_AbsentOverrideRejected ==
    (Created /\ args.empty /\ args.value # ""
        /\ ~InList(LongForm) /\ ~InList(ShortForm))
        => (outcome = "ValueError" /\ ret = <<>>)

C6_Witness ==
    /\ Created /\ args.empty /\ args.value = "v" /\ NTokens >= 1
    /\ ~InList(LongForm) /\ ~InList(ShortForm)
    /\ outcome = "ValueError"

(* C7 (as claimed): create_flag raises ValueError only for an empty flag   *)
(* given a non-empty value whose forms are both absent from the list.      *)
C7_RaisesOnlyAbsentOverride ==
    (Created /\ outcome = "ValueError")
        => (args.empty /\ args.value # "" /\ ~InList(LongForm) /\ ~InList(ShortForm))

----------------------------------------------------------------------------
(* Character-level reading of "joined with -" and "first letter of each"   *)

\* the number of characters of the long form that precede word i
RECURSIVE Before(_, _)
Before(ps, i) == IF i = 1 THEN 2 ELSE Before(ps, i - 1) + Len(ps[i - 1]) + 1

IsLongFormOf(s, ps) ==
    /\ Len(s) = Before(ps, Len(ps)) + Len(ps[Len(ps)])
    /\ SubSeq(s, 1, 2) = "--"
    /\ \A i \in 1..Len(ps) :
           SubSeq(s, Before(ps, i) + 1, Before(ps, i) + Len(ps[i])) = ps[i]
    /\ \A i \in 2..Len(ps) : SubSeq(s, Before(ps, i), Before(ps, i)) = "-"

IsShortFormOf(s, ps) ==
    /\ Len(s) = 1 + Len(ps)
    /\ SubSeq(s, 1, 1) = "-"
    /\ \A i \in 1..Len(ps) : SubSeq(s, i + 1, i + 1) = SubSeq(ps[i], 1, 1)

(* C8: for word parts p1..pN of the name, a returned record's long form is *)
(* "--" then the parts joined with "-", and its short form is "-" then the *)
(* first letter of each part in order, unless a non-empty override was     *)
(* given, which is then used unchanged.                                    *)
C8_DerivedForms ==
    (Created /\ Returned) =>
        LET ps == get_name_parts(args.name)
        IN  /\ Len(ps) >= 1
            /\ IF args.flag = "" THEN IsLongFormOf(ret[1].flag, ps)
                                 ELSE ret[1].flag = args.flag
            /\ IF args.short = "" THEN IsShortFormOf(ret[1].short, ps)
                                  ELSE ret[1].short = args.short

C8_Witness ==
    /\ Created /\ Returned
    /\ args.name = "o o" /\ args.flag = "" /\ args.short = ""
    /\ ret[1].flag = "--o-o" /\ ret[1].short = "-oo"

(* C9: parse_flag with empty = TRUE returns "True" whenever either form is *)
(* in the token list, at any position including the last, and never raises *)
(* IndexError; parse_flag returns "False" whenever neither form is in the  *)
(* list, for either value of empty.                                        *)
C9_SwitchNeedsNoLookahead ==
    Parsed =>
        /\ (args.empty /\ (InList(args.flag) \/ InList(args.short)))
               => (Returned /\ ret = <<"True">>)
        /\ (~InList(args.flag) /\ ~InList(args.short))
               => (Returned /\ ret = <<"False">>)

C9_Witness ==
    /\ Parsed /\ args.empty /\ NTokens >= 1
    /\ TokenList[NTokens] \in {args.flag, args.short}
    /\ FirstAt(TokenList[NTokens]) = NTokens
    /\ ret = <<"True">>

(* C10: every record create_flag returns with empty = TRUE has value = ""  *)
(* and called = FALSE.                                                     *)
C10_ReturnedEmptyFlagIsUncalled ==
    (Created /\ Returned /\ ret[1].empty)
        => (ret[1].value = "" /\ ~ret[1].called)

C10_Witness ==
    /\ Created /\ Returned /\ ret[1].empty /\ NTokens >= 1
    /\ ret[1].value = "" /\ ~ret[1].called

====
